---------------------------- MODULE Spec2Model ----------------------------
(* A model of bdd_converter.py: Builder walks a Robot Framework suite tree  *)
(* and writes one .feature file per suite that owns tests.                  *)
(*                                                                          *)
(* Python strings are TLA+ strings (Len, \o and SubSeq act on them) and     *)
(* Python lists are sequences. Spec is the conversion of a suite tree, which *)
(* may be run again on the same in-memory tree; SpecKw and SpecName apply   *)
(* the keyword normalizer and the display-name rule to drawn inputs.        *)
(*                                                                          *)
(* Left out: the fields _build_suite and _build_test copy through (source,  *)
(* relativeSource, id, fullName, doc, numberOfTests, timeout), print(test), *)
(* and the command line application around FeatureWriter.                   *)
EXTENDS Integers, Sequences, FiniteSets, TLC

VARIABLES
  suites,   \* the in-memory suite tree: suite id -> [parent, name, setup, teardown, tests]
  orig,     \* the tree as it was handed to the first conversion (never assigned again)
  pc,       \* where the running conversion is: idle, suite, opened, writing, done, aborted
  run,      \* number of conversions started on this tree
  stack,    \* the _build_suite call stack, innermost frame last
  handles,  \* file names with an open write handle
  disk,     \* the files of the working directory: file name -> content
  out,      \* per conversion, what it wrote: file name -> content
  emitted,  \* per suite, how many times the running conversion opened a file for it
  status,   \* per suite, in the running conversion: new, active, returned
  built,    \* per suite, <<the dict _build_suite returned>>, <<>> until it returns
  arg,      \* SpecKw, SpecName: the input the function is applied to
  ret       \* SpecKw, SpecName: its result, empty before the call

vars == <<suites, orig, pc, run, stack, handles, disk, out, emitted, status, built, arg, ret>>

\* ---------------------------------------------------------------- bounds

MaxSuites == 4
MaxRuns == 2
MaxBody == 3

\* ---------------------------------------------------------------- Python values

\* None where a string is expected, and a string that is there.
NoStr == [some |-> FALSE, v |-> ""]
Some(s) == [some |-> TRUE, v |-> s]

\* x or '' for an optional string x
OrEmpty(x) == IF x.some /\ x.v # "" THEN x.v ELSE ""

Char(s, i) == SubSeq(s, i, i)

RECURSIVE Join(_, _)
\* sep.join(items)
Join(sep, items) ==
  IF items = <<>> THEN ""
  ELSE IF Len(items) = 1 THEN items[1]
  ELSE items[1] \o sep \o Join(sep, Tail(items))

RECURSIVE Replace(_, _, _)
\* s.replace(old, new) for a one-character old
Replace(s, old, new) ==
  IF s = "" THEN ""
  ELSE (IF Char(s, 1) = old THEN new ELSE Char(s, 1))
         \o Replace(SubSeq(s, 2, Len(s)), old, new)

UpperCase == "ABCDEFGHIJKLMNOPQRSTUVWXYZ"
LowerCase == "abcdefghijklmnopqrstuvwxyz"

LowerChar(c) ==
  IF \E i \in 1..Len(UpperCase) : Char(UpperCase, i) = c
  THEN Char(LowerCase, CHOOSE i \in 1..Len(UpperCase) : Char(UpperCase, i) = c)
  ELSE c

RECURSIVE Lower(_)
\* s.lower()
Lower(s) ==
  IF s = "" THEN "" ELSE LowerChar(Char(s, 1)) \o Lower(SubSeq(s, 2, Len(s)))

\* sub in s
Contains(sub, s) ==
  \E i \in 1..(Len(s) - Len(sub) + 1) : SubSeq(s, i, i + Len(sub) - 1) = sub

RECURSIVE RStrip(_, _)
\* s.rstrip(chars)
RStrip(s, chars) ==
  IF s # "" /\ Contains(Char(s, Len(s)), chars)
  THEN RStrip(SubSeq(s, 1, Len(s) - 1), chars)
  ELSE s

RECURSIVE LStrip(_, _)
LStrip(s, chars) ==
  IF s # "" /\ Contains(Char(s, 1), chars)
  THEN LStrip(SubSeq(s, 2, Len(s)), chars)
  ELSE s

Whitespace == " \t\n"

\* s.strip()
Strip(s) == LStrip(RStrip(s, Whitespace), Whitespace)

\* robot.utils.seq2str2: '[ a | b ]', and '[ ]' for an empty sequence
seq2str2(values) ==
  IF values = <<>> THEN "[ ]" ELSE "[ " \o Join(" | ", values) \o " ]"

\* ---------------------------------------------------------------- keyword nodes

\* The nodes of robot.running that the normalizer reads, one record shape for
\* all of them; a field a variant does not have is empty.
Node(type, name, args, assign, variables, flavor, values, condition, body) ==
  [type |-> type, name |-> name, args |-> args, assign |-> assign,
   variables |-> variables, flavor |-> flavor, values |-> values,
   condition |-> condition, body |-> body]

\* A missing keyword (no setup, no teardown): falsy.
NoKw == Node("None", "", <<>>, <<>>, <<>>, "", <<>>, "", <<>>)

Kw(type, name, args, assign) == Node(type, name, args, assign, <<>>, "", <<>>, "", <<>>)
ForNode(variables, flavor, values) == Node("FOR", "", <<>>, <<>>, variables, flavor, values, "", <<>>)
WhileNode(condition) == Node("WHILE", "", <<>>, <<>>, <<>>, "", <<>>, condition, <<>>)
IfRoot(branches) == Node("IF/ELSE ROOT", "", <<>>, <<>>, <<>>, "", <<>>, "", branches)
TryRoot(branches) == Node("TRY/EXCEPT ROOT", "", <<>>, <<>>, <<>>, "", <<>>, "", branches)

\* A branch of an IF/ELSE or TRY/EXCEPT root.
Branch(type, condition, patterns, variable) ==
  [type |-> type, condition |-> condition, patterns |-> patterns, variable |-> variable]

LineRecord(type, name, arguments) == [type |-> type, name |-> name, arguments |-> arguments]

\* ---------------------------------------------------------------- Builder: keywords

RECURSIVE StripAssign(_)
\* [a.rstrip('= ') for a in assign]
StripAssign(assign) ==
  IF assign = <<>> THEN <<>>
  ELSE <<RStrip(Head(assign), "= ")>> \o StripAssign(Tail(assign))

_get_kw_name(kw) ==
  IF kw.assign # <<>>
  THEN Join(", ", StripAssign(kw.assign)) \o " = " \o kw.name
  ELSE kw.name

_build_data_row(row_data) == "\t| " \o Join(" | ", row_data) \o " |"

_build_keyword(kw, kw_type) ==
  IF _get_kw_name(kw) = "^" \/ _get_kw_name(kw) = ">"
  THEN LineRecord(kw_type, "", _build_data_row(kw.args))
  ELSE LineRecord(kw_type, _get_kw_name(kw), Join(", ", kw.args))

_build_for(data) ==
  LineRecord("FOR",
             Join(", ", data.variables) \o " " \o data.flavor \o " " \o seq2str2(data.values),
             "")

_build_while(data) == LineRecord("WHILE", data.condition, "")

RECURSIVE IfBranches(_)
IfBranches(branches) ==
  IF branches = <<>> THEN <<>>
  ELSE <<LineRecord(Head(branches).type, OrEmpty(Head(branches).condition), "")>>
         \o IfBranches(Tail(branches))

_build_if(data) == IfBranches(data.body)

TryBranchName(branch) ==
  IF branch.type = "EXCEPT"
  THEN Strip(Join(", ", branch.patterns) \o " "
             \o (IF branch.variable.some /\ branch.variable.v # ""
                 THEN "AS " \o branch.variable.v ELSE ""))
  ELSE ""

RECURSIVE TryBranches(_)
TryBranches(branches) ==
  IF branches = <<>> THEN <<>>
  ELSE <<LineRecord(Head(branches).type, TryBranchName(Head(branches)), "")>>
         \o TryBranches(Tail(branches))

_build_try(data) == TryBranches(data.body)

\* What one node of the sequence yields.
Expand(kw) ==
  IF kw.type = "None" THEN <<>>
  ELSE IF kw.type = "SETUP" THEN <<_build_keyword(kw, "SETUP")>>
  ELSE IF kw.type = "TEARDOWN" THEN <<_build_keyword(kw, "TEARDOWN")>>
  ELSE IF kw.type = "FOR" THEN <<_build_for(kw)>>
  ELSE IF kw.type = "WHILE" THEN <<_build_while(kw)>>
  ELSE IF kw.type = "IF/ELSE ROOT" THEN _build_if(kw)
  ELSE IF kw.type = "TRY/EXCEPT ROOT" THEN _build_try(kw)
  ELSE <<_build_keyword(kw, "KEYWORD")>>

RECURSIVE BuildKeywordsBlocksLast(_)
\* The normalizer with the branches of a control block put after what follows it.
BuildKeywordsBlocksLast(keywords) ==
  IF keywords = <<>> THEN <<>>
  ELSE IF Head(keywords).type \in {"IF/ELSE ROOT", "TRY/EXCEPT ROOT"}
       THEN BuildKeywordsBlocksLast(Tail(keywords)) \o Expand(Head(keywords))
       ELSE Expand(Head(keywords)) \o BuildKeywordsBlocksLast(Tail(keywords))

RECURSIVE _build_keywords(_)
\* list(self._build_keywords(keywords))
_build_keywords(keywords) ==
  IF keywords = <<>> THEN <<>>
  ELSE Expand(Head(keywords)) \o _build_keywords(Tail(keywords))

\* ---------------------------------------------------------------- Builder: tests

\* A Python value with its type, for the one place where the type decides.
PyList(v) == [pytype |-> "list", v |-> v]

\* str + x: the concatenation when x is a str, TypeError otherwise.
PyStrAdd(s, x) ==
  IF x.pytype = "str" THEN [ok |-> TRUE, v |-> s \o x.v]
  ELSE [ok |-> FALSE, v |-> "TypeError"]

\* test.body after the two in-place list operations of _build_test.
BodyAfterBuild(test) ==
  LET b1 == IF test.setup.type # "None" THEN <<test.setup>> \o test.body ELSE test.body
  IN  IF test.teardown.type # "None" THEN Append(b1, test.teardown) ELSE b1

\* The name policy with the comparison left case-sensitive.
TestNameCaseSensitive(name) ==
  IF ~Contains("scenario", name) THEN "Scenario: " \o name ELSE name

TestName(name) ==
  IF ~Contains("scenario", Lower(name)) THEN "Scenario: " \o name ELSE name

\* The dict _build_test returns, read after test.body was changed
\* (fullName, id, doc and timeout are copied through and left out).
_build_test(test) ==
  [name |-> TestName(test.name),
   tags |-> PyList(test.tags),
   keywords |-> _build_keywords(BodyAfterBuild(test))]

\* ---------------------------------------------------------------- Builder: files

FileName(name) == Replace(name, " ", "_") \o ".feature"

Header(name) == "Feature: " \o name \o "\n\n\n"

RECURSIVE Quoted(_)
Quoted(items) ==
  IF items = <<>> THEN <<>> ELSE <<"'" \o Head(items) \o "'">> \o Quoted(Tail(items))

\* str(items) for a list of plain strings: ['a', 'b']
PyRepr(items) == "[" \o Join(", ", Quoted(items)) \o "]"

\* The tag text had the list been rendered first: 't' + str(test['tags'])
TagLineRendered(test) == [ok |-> TRUE, v |-> "t" \o PyRepr(test.tags.v)]

\* 't' + test['tags']
TagLine(test) == PyStrAdd("t", test.tags)

RECURSIVE KeywordLines(_)
KeywordLines(keywords) ==
  IF keywords = <<>> THEN ""
  ELSE "\t\t" \o Head(keywords).name \o Head(keywords).arguments \o "\n"
         \o KeywordLines(Tail(keywords))

\* What one iteration of the loop over tests writes after the tag text.
TestLines(test) == "\t" \o test.name \o "\n" \o KeywordLines(test.keywords) \o "\n"

\* The file system with path opened for writing: created or truncated.
Opened(fs, path) == [f \in DOMAIN fs \cup {path} |-> IF f = path THEN "" ELSE fs[f]]

\* The file system after text was written to path.
Written(fs, path, text) == [fs EXCEPT ![path] = @ \o text]

\* ---------------------------------------------------------------- the suite tree

Test(name, tags, setup, teardown, body) ==
  [name |-> name, tags |-> tags, setup |-> setup, teardown |-> teardown, body |-> body]

TLogin ==
  Test("Successful login", <<"smoke">>, NoKw, NoKw,
       <<Kw("KEYWORD", "Open Browser", <<"chrome">>, <<>>)>>)

TLogout ==
  Test("Scenario: Logout", <<>>,
       Kw("SETUP", "Open App", <<"${URL}">>, <<>>),
       Kw("TEARDOWN", "Close App", <<>>, <<>>),
       <<IfRoot(<<Branch("IF", Some("${ok}"), <<>>, NoStr),
                  Branch("ELSE", NoStr, <<>>, NoStr)>>),
         Kw("KEYWORD", "Get Value", <<>>, <<"${x} =">>)>>)

TList ==
  Test("List users", <<"api", "slow">>,
       Kw("SETUP", "Connect", <<>>, <<>>), NoKw,
       <<ForNode(<<"${u}">>, "IN", <<"a", "b">>)>>)

TDrop ==
  Test("Drop user", <<"api">>, NoKw,
       Kw("TEARDOWN", "Disconnect", <<>>, <<>>), <<>>)

Suite(name, setup, teardown, tests) ==
  [name |-> name, setup |-> setup, teardown |-> teardown, tests |-> tests]

\* Suites built from a file own tests and no suites.
FileKinds ==
  { Suite("Login Suite", NoKw, NoKw, <<TLogin>>),
    Suite("Login_Suite", NoKw, NoKw, <<TLogout>>),
    Suite("Api", NoKw, NoKw, <<TList, TDrop>>) }

\* Suites built from a directory (or from several data sources) own suites and no tests.
DirKinds ==
  { Suite("Login Suite", Kw("SETUP", "Prepare", <<>>, <<>>), NoKw, <<>>),
    Suite("Api", NoKw, NoKw, <<>>) }

Root == 1

\* Parent vectors of the trees on 1..n: suite 1 is the root, a parent comes first.
Shapes(n) == { p \in [1..n -> 0..n] : p[1] = 0 /\ \A i \in 2..n : p[i] \in 1..(i - 1) }

HasChildren(p, i) == \E j \in DOMAIN p : p[j] = i

Trees ==
  UNION { UNION { { [i \in 1..n |-> [parent |-> p[i], name |-> k[i].name,
                                      setup |-> k[i].setup, teardown |-> k[i].teardown,
                                      tests |-> k[i].tests]] :
                    k \in { k \in [1..n -> FileKinds \cup DirKinds] :
                              \A i \in 1..n : HasChildren(p, i) => k[i] \in DirKinds } } :
                  p \in Shapes(n) } :
          n \in 1..MaxSuites }

Ids == DOMAIN suites

RECURSIVE ChildrenFrom(_, _, _)
ChildrenFrom(tree, s, i) ==
  IF i > Len(tree) THEN <<>>
  ELSE (IF tree[i].parent = s THEN <<i>> ELSE <<>>) \o ChildrenFrom(tree, s, i + 1)

\* suite.suites, in order
Children(tree, s) == ChildrenFrom(tree, s, 1)

\* ---------------------------------------------------------------- Builder: the walk

\* A call of _build_suite(suite): child is the index of the next nested suite
\* to build, tests holds the dicts of the tests built so far, filename is set
\* once computed and w is the index of the test the writing loop is at.
Frame(s) == [suite |-> s, child |-> 1, tests |-> <<>>, filename |-> "", w |-> 1]

Top == stack[Len(stack)]

NoFiles == [f \in {} |-> ""]

\* The dict _build_suite returns; a nested suite's dict is named by its id, and
\* tests is None, which is all _write_tests ever returns.
SuiteDict(s) ==
  [name |-> suites[s].name,
   suites |-> Children(suites, s),
   tests |-> "None",
   keywords |-> _build_keywords(<<suites[s].setup, suites[s].teardown>>)]

\* The call stack once the innermost _build_suite has returned to its caller,
\* which goes on to its next nested suite.
Popped ==
  IF Len(stack) = 1 THEN <<>>
  ELSE [SubSeq(stack, 1, Len(stack) - 1) EXCEPT ![Len(stack) - 1].child = @ + 1]

\* _build_suite(Top.suite) returns.
Return ==
  /\ built' = [built EXCEPT ![Top.suite] = <<SuiteDict(Top.suite)>>]
  /\ status' = [status EXCEPT ![Top.suite] = "returned"]
  /\ stack' = Popped
  /\ pc' = IF Len(stack) = 1 THEN "done" ELSE "suite"

ChildrenDone == Top.child > Len(Children(suites, Top.suite))

\* The nested suites taken last to first.
NextChildReversed ==
  Children(suites, Top.suite)[Len(Children(suites, Top.suite)) - Top.child + 1]

\* The nested suite _build_suites turns to next.
NextChild == Children(suites, Top.suite)[Top.child]

\* A conversion is started on the tree: convert_data calls _build_suite(root).
Convert ==
  /\ pc \in {"idle", "done", "aborted"}
  /\ run < MaxRuns
  /\ run' = run + 1
  /\ pc' = "suite"
  /\ stack' = <<Frame(Root)>>
  /\ status' = [i \in Ids |-> IF i = Root THEN "active" ELSE "new"]
  /\ emitted' = [i \in Ids |-> 0]
  /\ built' = [i \in Ids |-> <<>>]
  /\ out' = Append(out, NoFiles)
  /\ UNCHANGED <<suites, orig, handles, disk, arg, ret>>

\* _build_suites: the list comprehension calls _build_suite on the next nested suite.
VisitChild ==
  /\ pc = "suite"
  /\ ~ChildrenDone
  /\ stack' = Append(stack, Frame(NextChild))
  /\ status' = [status EXCEPT ![NextChild] = "active"]
  /\ UNCHANGED <<suites, orig, pc, run, handles, disk, out, emitted, built, arg, ret>>

\* _write_tests on a suite without tests does nothing; _build_suite returns.
WriteNoTests ==
  /\ pc = "suite"
  /\ ChildrenDone
  /\ suites[Top.suite].tests = <<>>
  /\ Return
  /\ UNCHANGED <<suites, orig, run, handles, disk, out, emitted, arg, ret>>

\* _write_tests: the list comprehension calls _build_test on the next test,
\* which changes the test's body in place and returns the test's dict.
BuildTest ==
  /\ pc = "suite"
  /\ ChildrenDone
  /\ Len(Top.tests) < Len(suites[Top.suite].tests)
  /\ LET s == Top.suite
         k == Len(Top.tests) + 1
         test == suites[s].tests[k]
         mutated == [test EXCEPT !.body = BodyAfterBuild(test)]
     IN /\ suites' = [suites EXCEPT ![s].tests[k] = mutated]
        /\ stack' = [stack EXCEPT ![Len(stack)].tests = Append(@, _build_test(test))]
  /\ UNCHANGED <<orig, pc, run, handles, disk, out, emitted, status, built, arg, ret>>

\* _write_tests: the file name is computed and the file is opened for writing.
OpenFile ==
  /\ pc = "suite"
  /\ ChildrenDone
  /\ suites[Top.suite].tests # <<>>
  /\ Len(Top.tests) = Len(suites[Top.suite].tests)
  /\ LET filename == FileName(suites[Top.suite].name)
     IN /\ stack' = [stack EXCEPT ![Len(stack)].filename = filename]
        /\ disk' = Opened(disk, filename)
        /\ out' = [out EXCEPT ![run] = Opened(@, filename)]
        /\ handles' = handles \cup {filename}
  /\ emitted' = [emitted EXCEPT ![Top.suite] = @ + 1]
  /\ pc' = "opened"
  /\ UNCHANGED <<suites, orig, run, status, built, arg, ret>>

\* _write_tests: the Feature line and the two blank lines.
WriteHeader ==
  /\ pc = "opened"
  /\ disk' = Written(disk, Top.filename, Header(suites[Top.suite].name))
  /\ out' = [out EXCEPT ![run] = Written(@, Top.filename, Header(suites[Top.suite].name))]
  /\ pc' = "writing"
  /\ UNCHANGED <<suites, orig, run, stack, handles, emitted, status, built, arg, ret>>

\* _write_tests: one iteration of the loop over the tests. When the tag text
\* cannot be formed the exception leaves the with block, which closes the file,
\* and nothing up the call stack catches it. After the last test the with block
\* ends, the file is closed and _build_suite returns.
WriteTest ==
  /\ pc = "writing"
  /\ LET test == Top.tests[Top.w]
         tag == TagLine(test)
         text == tag.v \o TestLines(test)
     IN IF ~tag.ok
        THEN /\ handles' = handles \ {Top.filename}
             /\ stack' = <<>>
             /\ pc' = "aborted"
             /\ UNCHANGED <<disk, out, status, built>>
        ELSE /\ disk' = Written(disk, Top.filename, text)
             /\ out' = [out EXCEPT ![run] = Written(@, Top.filename, text)]
             /\ IF Top.w < Len(Top.tests)
                THEN /\ stack' = [stack EXCEPT ![Len(stack)].w = @ + 1]
                     /\ UNCHANGED <<pc, handles, status, built>>
                ELSE /\ handles' = handles \ {Top.filename}
                     /\ Return
  /\ UNCHANGED <<suites, orig, run, emitted, arg, ret>>

Init ==
  /\ suites \in Trees
  /\ orig = suites
  /\ pc = "idle"
  /\ run = 0
  /\ stack = <<>>
  /\ handles = {}
  /\ disk = NoFiles
  /\ out = <<>>
  /\ emitted = [i \in DOMAIN suites |-> 0]
  /\ status = [i \in DOMAIN suites |-> "new"]
  /\ built = [i \in DOMAIN suites |-> <<>>]
  /\ arg = ""
  /\ ret = ""

Next ==
  \/ Convert
  \/ VisitChild
  \/ WriteNoTests
  \/ BuildTest
  \/ OpenFile
  \/ WriteHeader
  \/ WriteTest

Spec == Init /\ [][Next]_vars

\* ---------------------------------------------------------------- the pure functions alone

\* Keyword nodes of every variant, to draw a body from.
NodePool ==
  { NoKw,
    Kw("KEYWORD", "Open Browser", <<"chrome">>, <<>>),
    Kw("KEYWORD", "Get Value", <<"a", "b">>, <<"${x} =", "${y}=">>),
    Kw("KEYWORD", "^", <<"a", "b", "c">>, <<>>),
    Kw("SETUP", "Open App", <<>>, <<>>),
    Kw("TEARDOWN", "Close App", <<>>, <<>>),
    ForNode(<<"${i}", "${j}">>, "IN RANGE", <<"10">>),
    WhileNode("${n} < 3"),
    IfRoot(<<Branch("IF", Some("${a}"), <<>>, NoStr),
             Branch("ELSE IF", Some("${b}"), <<>>, NoStr),
             Branch("ELSE", NoStr, <<>>, NoStr)>>),
    TryRoot(<<Branch("TRY", NoStr, <<>>, NoStr),
              Branch("EXCEPT", NoStr, <<"Error *", "Oops">>, Some("${err}")),
              Branch("EXCEPT", NoStr, <<>>, NoStr),
              Branch("FINALLY", NoStr, <<>>, NoStr)>>) }

Bodies == UNION { [1..n -> NodePool] : n \in 0..MaxBody }

Idle ==
  /\ suites = <<Suite("Api", NoKw, NoKw, <<>>) @@ [parent |-> 0]>>
  /\ orig = suites
  /\ pc = "idle"
  /\ run = 0
  /\ stack = <<>>
  /\ handles = {}
  /\ disk = NoFiles
  /\ out = <<>>
  /\ emitted = [i \in DOMAIN suites |-> 0]
  /\ status = [i \in DOMAIN suites |-> "new"]
  /\ built = [i \in DOMAIN suites |-> <<>>]

InitKw == Idle /\ arg \in Bodies /\ ret = <<>>

\* list(self._build_keywords(body)) is called on a body.
Normalize ==
  /\ pc = "idle"
  /\ ret' = _build_keywords(arg)
  /\ pc' = "normalized"
  /\ UNCHANGED <<suites, orig, run, stack, handles, disk, out, emitted, status, built, arg>>

SpecKw == InitKw /\ [][Normalize]_vars

NamePrefixes == {"", "My ", "A"}
NameCores == {"scenario", "SCENARIO", "Scenario", "sCeNaRiO", "scenari", "cenario",
              "scen ario", "Login works", ""}
NameSuffixes == {"", " test", ": Login works", "s"}

Names == { p \o c \o x : p \in NamePrefixes, c \in NameCores, x \in NameSuffixes }

InitName == Idle /\ arg \in Names /\ ret = ""

\* _build_test derives the display name of a test called arg.
BuildName ==
  /\ pc = "idle"
  /\ ret' = TestName(arg)
  /\ pc' = "named"
  /\ UNCHANGED <<suites, orig, run, stack, handles, disk, out, emitted, status, built, arg>>

SpecName == InitName /\ [][BuildName]_vars

\* ---------------------------------------------------------------- claims

Ended == pc \in {"done", "aborted"}

HasTests(s) == orig[s].tests # <<>>

\* The keyword list a test's dict is to hold: the setup's record, the records
\* of the body the test came with, the teardown's record.
ExpectedKeywords(test) ==
  (IF test.setup.type # "None" THEN <<_build_keyword(test.setup, "SETUP")>> ELSE <<>>)
    \o _build_keywords(test.body)
    \o (IF test.teardown.type # "None" THEN <<_build_keyword(test.teardown, "TEARDOWN")>> ELSE <<>>)

\* The lines of one test after its tag text.
ExpectedLines(test) ==
  "\t" \o TestName(test.name) \o "\n" \o KeywordLines(ExpectedKeywords(test)) \o "\n"

\* content is the whole feature text of suite s: it starts with the Feature
\* header and holds the lines of every test of s.
Complete(content, s) ==
  /\ Len(content) >= Len(Header(orig[s].name))
  /\ SubSeq(content, 1, Len(Header(orig[s].name))) = Header(orig[s].name)
  /\ \A k \in 1..Len(orig[s].tests) : Contains(ExpectedLines(orig[s].tests[k]), content)

\* C1: when a second (or later) conversion of the same tree has ended, the
\* files it wrote, names and contents, are those the first conversion wrote.
C1_Idempotent == (Ended /\ run >= 2) => out[run] = out[1]

\* A second conversion has ended after writing a file, on a tree with a test
\* whose setup has by then been put into its body twice.
C1_Witness ==
  /\ Ended /\ run = 2
  /\ DOMAIN out[2] # {}
  /\ \E s \in Ids : \E k \in 1..Len(suites[s].tests) :
       /\ suites[s].tests[k].setup.type # "None"
       /\ Len(suites[s].tests[k].body) >= Len(orig[s].tests[k].body) + 2

\* C2: building TestRecords leaves the input tree as it was: every test's
\* body is the sequence the test came with.
C2_TreeUnchanged == suites = orig

\* C3: every TestRecord built, in whichever conversion, holds the setup's
\* record once and first, the records of the test's original body, and the
\* teardown's record once and last.
C3_KeywordsOnce ==
  \A i \in 1..Len(stack) : \A k \in 1..Len(stack[i].tests) :
    stack[i].tests[k].keywords = ExpectedKeywords(orig[stack[i].suite].tests[k])

\* C4: when a conversion has ended, it has emitted exactly one file for each
\* suite with a direct test and none for a suite without.
C4_OneFilePerSuiteWithTests ==
  Ended => \A s \in Ids : emitted[s] = IF HasTests(s) THEN 1 ELSE 0

\* C5: for a suite with a direct test, _write_tests completes and leaves the
\* whole feature text in <suite name, spaces as underscores>.feature.
C5_FeatureWritten ==
  \A s \in Ids :
    (Ended /\ HasTests(s) /\ emitted[s] > 0) =>
      /\ status[s] = "returned"
      /\ FileName(orig[s].name) \in DOMAIN disk
      /\ Complete(disk[FileName(orig[s].name)], s)

\* C6: two different suites of a tree that both own tests have different
\* target file names.
C6_DistinctFiles ==
  \A a \in Ids : \A b \in Ids :
    (a # b /\ HasTests(a) /\ HasTests(b)) => FileName(orig[a].name) # FileName(orig[b].name)

\* C7: when a conversion has failed, no handle is open and no file it wrote
\* is left with less than a suite's whole feature text.
C7_AllOrNothing ==
  pc = "aborted" =>
    /\ handles = {}
    /\ \A f \in DOMAIN out[run] :
         \E s \in Ids : HasTests(s) /\ FileName(orig[s].name) = f /\ Complete(disk[f], s)

\* name holds the letters s-c-e-n-a-r-i-o in a row, each in either case.
HasScenario(name) ==
  \E i \in 1..(Len(name) - 7) :
    \A k \in 1..8 : Char(name, i + k - 1) \in {Char("scenario", k), Char("SCENARIO", k)}

\* C8: the display name is the name when the name holds 'scenario' in any
\* mix of cases, and 'Scenario: ' + name when it does not.
C8_NamePolicy ==
  pc = "named" =>
    /\ ret = IF HasScenario(arg) THEN arg ELSE "Scenario: " \o arg
    /\ arg = "Login works" => ret = "Scenario: Login works"
    /\ arg = "Scenario: Login works" => ret = "Scenario: Login works"
    /\ arg = "My SCENARIO test" => ret = "My SCENARIO test"

\* The name of a test that says SCENARIO in capitals has been derived.
C8_Witness == pc = "named" /\ arg = "My SCENARIO test" /\ ret = arg

\* The number of LineRecords a node stands for: none for a null node, one per
\* branch for an IF/ELSE or TRY/EXCEPT root, one for any other node.
Width(kw) ==
  IF kw.type = "None" THEN 0
  ELSE IF kw.type \in {"IF/ELSE ROOT", "TRY/EXCEPT ROOT"} THEN Len(kw.body)
  ELSE 1

RECURSIVE Offset(_, _)
\* The number of LineRecords the nodes before position i stand for.
Offset(keywords, i) ==
  IF i = 1 THEN 0 ELSE Offset(keywords, i - 1) + Width(keywords[i - 1])

\* The type of the b-th LineRecord of a node.
RecordType(kw, b) ==
  IF kw.type \in {"IF/ELSE ROOT", "TRY/EXCEPT ROOT"} THEN kw.body[b].type
  ELSE IF kw.type \in {"SETUP", "TEARDOWN", "FOR", "WHILE"} THEN kw.type
  ELSE "KEYWORD"

\* C9: the normalizer's output is, node by node in input order, each node's
\* records: none for a null node, one per branch in branch order for an
\* IF/ELSE or TRY/EXCEPT root (typed as the branch), one for any other node.
C9_OrderPreservingFlattening ==
  pc = "normalized" =>
    /\ Len(ret) = Offset(arg, Len(arg) + 1)
    /\ \A i \in 1..Len(arg) :
         /\ Len(Expand(arg[i])) = Width(arg[i])
         /\ \A b \in 1..Width(arg[i]) :
              /\ ret[Offset(arg, i) + b] = Expand(arg[i])[b]
              /\ ret[Offset(arg, i) + b].type = RecordType(arg[i], b)

\* A body of a null node, a control block of several branches and a keyword
\* after it has been normalized.
C9_Witness ==
  /\ pc = "normalized"
  /\ Len(arg) = 3
  /\ arg[1].type = "None"
  /\ arg[2].type \in {"IF/ELSE ROOT", "TRY/EXCEPT ROOT"}
  /\ arg[3].type = "KEYWORD"
  /\ Len(ret) = Len(arg[2].body) + 1

RECURSIVE InSubtree(_, _)
\* Suite x is suite a or one of its descendants.
InSubtree(x, a) ==
  x = a \/ (orig[x].parent # 0 /\ InSubtree(orig[x].parent, a))

\* Suite a comes before suite b among the nested suites of one suite.
SiblingBefore(a, b) ==
  /\ orig[a].parent # 0
  /\ orig[b].parent = orig[a].parent
  /\ LET ch == Children(orig, orig[a].parent)
     IN \E i \in 1..Len(ch) : \E j \in 1..Len(ch) : i < j /\ ch[i] = a /\ ch[j] = b

=============================================================================
